---- MODULE Spec2Model ----
(***************************************************************************)
(* Speculative-step controllers of sglang.srt.speculative:                 *)
(*   - SpeculativeTuner       (auto_tuner.py): threshold tuner             *)
(*   - SpeculativeController  (speculative_controller.py): bandit          *)
(* Acceptance rates are Python floats in the source; here they are exact   *)
(* rationals <<numerator, denominator>> in lowest terms.  The input        *)
(* samples are chosen so that float and exact arithmetic agree on every    *)
(* comparison the tuner makes for the window sizes explored.               *)
(***************************************************************************)
EXTENDS Integers, Sequences, FiniteSets, TLC

\* ---------------------------------------------------------------- bounds
\* Cap on the number of SpeculativeTuner.update calls in one behaviour of
\* Spec (two batch sizes) and of SpecRates (one batch size, every rate).
MaxUpdates == 2
MaxRateUpdates == 3
\* window_size handed to SpeculativeTuner.__init__ (the default is 10).
WindowSizeArg == 2
\* The capacity of a controller window: deque(maxlen=20) in the source,
\* scaled down; every property is stated for the capacity, whatever it is.
HistoryMaxLen == 3
\* SpeculativeController.warmup_samples: 5 in the source, scaled down with
\* the capacity (it stays below it).
warmup_samples == 2
\* Cap on the number of update_with_step calls in one behaviour of
\* SpecController.
MaxReports == 5
\* Cap on the number of decisions of the scheduler loop of SpecLoop.
MaxDecisions == 7

VARIABLES
    max_step,       \* SpeculativeTuner.max_step
    window_size,    \* SpeculativeTuner.window_size
    bs_to_step,     \* SpeculativeTuner.bs_to_step : batch_size -> step
    history,        \* SpeculativeTuner.history    : batch_size -> deque of <<step, rate>>
    call,           \* the last tuner call: its arguments, what it returned or raised
    n_updates,      \* number of update calls made so far
    \* History variables (not program state), read only by the properties:
    asked,          \* batch sizes get_step has been called with
    held,           \* batch_size -> what the next get_step is expected to return:
                    \*   max_step before the first get_step, then the value last
                    \*   returned; dropped when an update for it adjusts the suggestion
    fresh           \* batch_size -> value get_step returned since the last update call

VARIABLES
    loops,          \* per decode loop sharing the tuner: the statement it is at in
                    \*   get_step / update / _adjust_step and the locals of the call
    applied         \* batch_size -> the <<step, rate>> of the updates begun for it
                    \*   with drafted_tokens # 0, in the order they were begun

tuner_vars ==
    <<max_step, window_size, bs_to_step, history, call, n_updates, asked, held, fresh,
      loops, applied>>

VARIABLES
    max_steps,      \* SpeculativeController.max_steps
    ctl_history,    \* SpeculativeController.history : <<bucket, step>> -> deque of
                    \*   <<latency, accepted tokens>>
    last_decision,  \* SpeculativeController.last_decision (never written)
    ctl_call,       \* the last controller call: its arguments, result, branch, error
    n_reports,      \* number of update_with_step calls made so far
    \* The scheduler loop around the controller, and a history variable:
    pending,        \* the step decided and not yet reported (0: none)
    decisions,      \* the decisions of the loop so far, as <<step, branch>>
    reported        \* <<bucket, step>> -> every <<latency, tokens>> reported for it

ctl_vars ==
    <<max_steps, ctl_history, last_decision, ctl_call, n_reports,
      pending, decisions, reported>>

vars == <<tuner_vars, ctl_vars>>

\* ------------------------------------------------------- exact rationals
Abs(x) == IF x < 0 THEN -x ELSE x

RECURSIVE GCD(_, _)
GCD(a, b) == IF b = 0 THEN a ELSE GCD(b, a % b)

\* n / d for d # 0, in lowest terms with a positive denominator.
Rat(n, d) ==
    LET g == GCD(Abs(n), Abs(d))
        s == IF d < 0 THEN -1 ELSE 1
    IN  <<(s * n) \div g, (s * d) \div g>>

RatAdd(p, q) == Rat(p[1] * q[2] + q[1] * p[2], p[2] * q[2])
RatSub(p, q) == Rat(p[1] * q[2] - q[1] * p[2], p[2] * q[2])
RatLess(p, q) == p[1] * q[2] < q[1] * p[2]
RatLeq(p, q) == p[1] * q[2] <= q[1] * p[2]

RECURSIVE RatSum(_)
RatSum(s) == IF s = <<>> THEN <<0, 1>> ELSE RatAdd(Head(s), RatSum(Tail(s)))

Min(a, b) == IF a < b THEN a ELSE b
Max(a, b) == IF a > b THEN a ELSE b

\* ------------------------------------------------------------- the tuner
\* target_acceptance_rate = 0.6 (the constructor's default).
target_acceptance_rate == <<3, 5>>
\* The 0.1 added to and subtracted from the target in _adjust_step.
band == <<1, 10>>

\* collections.deque(maxlen=n).append(x): the oldest element is dropped
\* when the deque is full.
DequeAppend(q, x, maxlen) ==
    IF Len(q) < maxlen THEN Append(q, x) ELSE Append(Tail(q), x)

\* dict.get(batch_size, default)
DictGet(d, k, default) == IF k \in DOMAIN d THEN d[k] ELSE default

\* d[k] = v
DictSet(d, k, v) == [x \in DOMAIN d \cup {k} |-> IF x = k THEN v ELSE d[x]]

\* Faulty variant: the max_step // 2 heuristic instead of max_step.
InitialStepHalf == Max(1, max_step \div 2)

\* The value get_step stores for a batch size it has not seen.
InitialStep == max_step

\* Faulty variant: get_step backs an existing suggestion off on every read.
GetStepTableBackoff(bs, b) ==
    IF b \notin DOMAIN bs THEN DictSet(bs, b, InitialStep)
    ELSE DictSet(bs, b, Max(1, bs[b] - 1))

\* Faulty variant: the entry is written on every call.
GetStepTableReset(bs, b) == DictSet(bs, b, InitialStep)

\* get_step: what the table is after the call.
GetStepTable(bs, b) == IF b \notin DOMAIN bs THEN DictSet(bs, b, InitialStep) ELSE bs

\* Faulty variant: the window is not filtered by step.
RecentRecordsUnfiltered(win, current_step) == win

\* recent_records of _adjust_step: the records of the window whose step is
\* the current step.
RecentRecords(win, current_step) ==
    LET Match(r) == r[1] = current_step IN SelectSeq(win, Match)

\* avg_rate of _adjust_step, for a non-empty list of records.
AvgRate(recs) ==
    LET rates == [i \in 1..Len(recs) |-> recs[i][2]]
        total == RatSum(rates)
    IN  Rat(total[1], total[2] * Len(recs))

\* Faulty variant: the decrease is not floored at 1.
NewStepNoFloor(current_step, avg_rate) ==
    IF RatLess(RatAdd(target_acceptance_rate, band), avg_rate)
    THEN Min(max_step, current_step + 1)
    ELSE IF RatLess(avg_rate, RatSub(target_acceptance_rate, band))
         THEN current_step - 1
         ELSE current_step

\* Faulty variant: the upper threshold is compared with >= instead of >.
NewStepClosedAbove(current_step, avg_rate) ==
    IF RatLeq(RatAdd(target_acceptance_rate, band), avg_rate)
    THEN Min(max_step, current_step + 1)
    ELSE IF RatLess(avg_rate, RatSub(target_acceptance_rate, band))
         THEN Max(1, current_step - 1)
         ELSE current_step

\* Faulty variant: the increase is not capped at max_step.
NewStepNoCap(current_step, avg_rate) ==
    IF RatLess(RatAdd(target_acceptance_rate, band), avg_rate)
    THEN current_step + 1
    ELSE IF RatLess(avg_rate, RatSub(target_acceptance_rate, band))
         THEN Max(1, current_step - 1)
         ELSE current_step

\* new_step of _adjust_step.
NewStep(current_step, avg_rate) ==
    IF RatLess(RatAdd(target_acceptance_rate, band), avg_rate)
    THEN Min(max_step, current_step + 1)
    ELSE IF RatLess(avg_rate, RatSub(target_acceptance_rate, band))
         THEN Max(1, current_step - 1)
         ELSE current_step

\* Faulty variant: without the early return an empty filter result counts
\* as a low rate.
AdjustStepNoReturn(bs, win, b) ==
    LET current_step == DictGet(bs, b, max_step)
        recent_records == RecentRecords(win, current_step)
    IN  IF recent_records = <<>>
        THEN DictSet(bs, b, Max(1, current_step - 1))
        ELSE DictSet(bs, b, NewStep(current_step, AvgRate(recent_records)))

\* _adjust_step(batch_size): the table after the call, given the window.
AdjustStep(bs, win, b) ==
    LET current_step == DictGet(bs, b, max_step)
        recent_records == RecentRecords(win, current_step)
    IN  IF recent_records = <<>>
        THEN bs
        ELSE DictSet(bs, b, NewStep(current_step, AvgRate(recent_records)))

\* The window of batch_size b after update appended <<step, rate>>.
UpdatedWindow(hist, b, step, rate) ==
    DequeAppend(DictGet(hist, b, <<>>), <<step, rate>>, window_size)

\* The suggestion in force for b: _adjust_step reads an absent entry as max_step.
Suggestion(bs, b) == DictGet(bs, b, max_step)

\* Faulty variant: the guard is missing.
ZeroDraftedUnchecked(dr) == FALSE

\* The guard of update: a sample with no drafted tokens is dropped.
ZeroDrafted(dr) == dr = 0

\* A call record: the arguments, the value returned (0 for None), the error
\* raised, and what the call found: current_step as _adjust_step read it,
\* whether it was the first get_step for the batch size, and whether it
\* repeated a get_step with no update call in between.
TunerCall(op, b, step, acc, dr, ret, err, cur, first, repeat) ==
    [op |-> op, batch_size |-> b, step |-> step,
     accepted_tokens |-> acc, drafted_tokens |-> dr, ret |-> ret, err |-> err,
     current_step |-> cur, first |-> first, repeat |-> repeat]

\* The values of max_step the tuner is constructed with.
MaxStepChoices == {1, 2, 3}

\* The batch sizes the callers use.
BatchSizes == {1, 2}

\* The decode loops that may share one tuner.
Loops == {"loop1", "loop2"}

\* A loop that is in no call of the tuner.
Idle == [pc |-> "idle", batch_size |-> 0, step |-> 0, accepted_tokens |-> 0,
         drafted_tokens |-> 0, rate |-> <<0, 1>>, current_step |-> 0,
         recent_records |-> <<>>, new_step |-> 0]

\* SpeculativeTuner(max_step, window_size)
TunerInit(ms, ws) ==
    /\ max_step = ms
    /\ window_size = ws
    /\ bs_to_step = <<>>
    /\ history = <<>>
    /\ call = TunerCall("init", 0, 0, 0, 0, 0, "none", 0, FALSE, FALSE)
    /\ n_updates = 0
    /\ asked = {}
    /\ held = [b \in BatchSizes |-> ms]
    /\ fresh = <<>>
    /\ loops = [t \in Loops |-> Idle]
    /\ applied = <<>>

get_step(b) ==
    /\ bs_to_step' = GetStepTable(bs_to_step, b)
    /\ call' = TunerCall("get_step", b, 0, 0, 0, bs_to_step'[b], "none", 0,
                         b \notin asked, b \in DOMAIN fresh)
    /\ asked' = asked \cup {b}
    /\ held' = DictSet(held, b, bs_to_step'[b])
    /\ fresh' = DictSet(fresh, b, bs_to_step'[b])
    /\ UNCHANGED <<max_step, window_size, history, n_updates, loops, applied>>

update(b, step, acc, dr) ==
    /\ n_updates' = n_updates + 1
    /\ fresh' = <<>>
    /\ IF ZeroDrafted(dr)
       THEN /\ call' = TunerCall("update", b, step, acc, dr, 0, "none", 0, FALSE, FALSE)
            /\ UNCHANGED <<bs_to_step, history, held>>
       ELSE IF dr = 0
       THEN \* accepted_tokens / drafted_tokens raises
            /\ call' = TunerCall("update", b, step, acc, dr, 0, "ZeroDivisionError",
                                 0, FALSE, FALSE)
            /\ UNCHANGED <<bs_to_step, history, held>>
       ELSE LET win == UpdatedWindow(history, b, step, Rat(acc, dr))
                bs  == AdjustStep(bs_to_step, win, b)
            IN  /\ call' = TunerCall("update", b, step, acc, dr, 0, "none",
                                     Suggestion(bs_to_step, b), FALSE, FALSE)
                /\ history' = DictSet(history, b, win)
                /\ bs_to_step' = bs
                /\ held' = IF Suggestion(bs, b) # Suggestion(bs_to_step, b)
                           THEN [x \in DOMAIN held \ {b} |-> held[x]]
                           ELSE held
    /\ UNCHANGED <<max_step, window_size, asked, loops, applied>>

\* -------------------------------------------------------- the controller
bs_bucket_size == 4

\* Faulty variant: list(range(initial_steps))
step_candidates_from_zero == [i \in 1..max_steps |-> i - 1]

\* step_candidates = list(range(1, initial_steps + 1))
step_candidates == [i \in 1..max_steps |-> i]

\* The bucket of a batch size: rounded up to a multiple of bs_bucket_size.
BsBucket(batch_size) ==
    ((batch_size + bs_bucket_size - 1) \div bs_bucket_size) * bs_bucket_size

\* Faulty variant: the batch size is rounded down.
BsBucketFloor(batch_size) == (batch_size \div bs_bucket_size) * bs_bucket_size

\* bs_bucket of update_with_step, computed by the same expression.
BsBucketOfReport(batch_size) ==
    ((batch_size + bs_bucket_size - 1) \div bs_bucket_size) * bs_bucket_size

RECURSIVE SumSeq(_)
SumSeq(q) == IF q = <<>> THEN 0 ELSE Head(q) + SumSeq(Tail(q))

\* sum(s[0] for s in samples), sum(s[1] for s in samples)
TotalLatency(samples) == SumSeq([i \in 1..Len(samples) |-> samples[i][1]])
TotalTokens(samples) == SumSeq([i \in 1..Len(samples) |-> samples[i][2]])

\* self.history[key] of a defaultdict: an absent key reads as an empty deque.
Window(hist, key) == DictGet(hist, key, <<>>)

\* Faulty variant: the warmup test compares with <= instead of <.
InsufficientInclusive(samples) == Len(samples) <= warmup_samples

\* Faulty variant: the warmup test stops one sample early.
InsufficientShort(samples) == Len(samples) < warmup_samples - 1

\* The warmup test of get_num_steps on one window.
Insufficient(samples) == Len(samples) < warmup_samples

\* The warmup loop of get_num_steps: the index of the first candidate, from
\* index i on, whose window is insufficient; 0 when there is none.
RECURSIVE WarmupIndex(_, _, _)
WarmupIndex(hist, bucket, i) ==
    IF i > Len(step_candidates) THEN 0
    ELSE IF Insufficient(Window(hist, <<bucket, step_candidates[i]>>)) THEN i
    ELSE WarmupIndex(hist, bucket, i + 1)

\* The keys the warmup loop reads, each created empty when absent.
WarmupKeys(hist, bucket) ==
    LET w == WarmupIndex(hist, bucket, 1)
        last == IF w = 0 THEN Len(step_candidates) ELSE w
    IN  {<<bucket, step_candidates[i]>> : i \in 1..last}

\* Faulty variant: the throughput comparison is >= instead of >, so the last
\* of several tied candidates wins.
RECURSIVE ExploitLoopLastWins(_, _, _, _)
ExploitLoopLastWins(hist, bucket, i, acc) ==
    IF i > Len(step_candidates) THEN acc
    ELSE LET step == step_candidates[i]
             samples == Window(hist, <<bucket, step>>)
             tps == <<TotalTokens(samples), TotalLatency(samples)>>
         IN  IF samples = <<>> THEN ExploitLoopLastWins(hist, bucket, i + 1, acc)
             ELSE IF TotalLatency(samples) > 0 /\ RatLeq(acc[2], tps)
                  THEN ExploitLoopLastWins(hist, bucket, i + 1, <<step, tps>>)
                  ELSE ExploitLoopLastWins(hist, bucket, i + 1, acc)

\* The exploitation loop: <<best_step, max_tps>> after the candidates from
\* index i on, starting from acc; max_tps is the rational tokens / latency.
RECURSIVE ExploitLoop(_, _, _, _)
ExploitLoop(hist, bucket, i, acc) ==
    IF i > Len(step_candidates) THEN acc
    ELSE LET step == step_candidates[i]
             samples == Window(hist, <<bucket, step>>)
             tps == <<TotalTokens(samples), TotalLatency(samples)>>
         IN  IF samples = <<>> THEN ExploitLoop(hist, bucket, i + 1, acc)
             ELSE IF TotalLatency(samples) > 0 /\ RatLess(acc[2], tps)
                  THEN ExploitLoop(hist, bucket, i + 1, <<step, tps>>)
                  ELSE ExploitLoop(hist, bucket, i + 1, acc)

\* Faulty variant: the best step is returned when max_tps >= 0, so a best
\* throughput of 0 does not fall back to max_steps.
DecisionNoFallback(hist, bucket, explore, pick) ==
    LET w == WarmupIndex(hist, bucket, 1)
        best == ExploitLoop(hist, bucket, 1, <<1, <<-1, 1>>>>)
    IN  IF w # 0 THEN <<step_candidates[w], "warmup">>
        ELSE IF explore THEN <<pick, "explore">>
        ELSE IF RatLeq(<<0, 1>>, best[2]) THEN <<best[1], "exploit">>
        ELSE <<max_steps, "fallback">>

\* get_num_steps: <<step returned, branch taken>>.  explore is the outcome of
\* random.random() < exploration_rate and pick that of random.choice.
Decision(hist, bucket, explore, pick) ==
    LET w == WarmupIndex(hist, bucket, 1)
        best == ExploitLoop(hist, bucket, 1, <<1, <<-1, 1>>>>)
    IN  IF w # 0 THEN <<step_candidates[w], "warmup">>
        ELSE IF explore THEN <<pick, "explore">>
        ELSE IF RatLess(<<0, 1>>, best[2]) THEN <<best[1], "exploit">>
        ELSE <<max_steps, "fallback">>

\* The history after get_num_steps: the keys it read exist.
HistoryAfterGet(hist, bucket) ==
    [k \in DOMAIN hist \cup WarmupKeys(hist, bucket) |-> Window(hist, k)]

\* Faulty variant: the record goes to every window of the bucket.
HistoryAfterReportBucketWide(hist, key, rec) ==
    [k \in DOMAIN hist \cup {key} |->
        IF k[1] = key[1] THEN DequeAppend(Window(hist, k), rec, HistoryMaxLen)
        ELSE hist[k]]

\* Faulty variant: a full window is restarted from the new record.
HistoryAfterReportRestart(hist, key, rec) ==
    DictSet(hist, key, IF Len(Window(hist, key)) < HistoryMaxLen
                       THEN Append(Window(hist, key), rec) ELSE <<rec>>)

\* The history after update_with_step appended to the key's window.
HistoryAfterReport(hist, key, rec) ==
    DictSet(hist, key, DequeAppend(Window(hist, key), rec, HistoryMaxLen))

CtlCall(op, b, steps, lens, lat, ret, branch, err) ==
    [op |-> op, batch_size |-> b, num_steps |-> steps, accept_lens |-> lens,
     latency |-> lat, ret |-> ret, branch |-> branch, err |-> err]

\* SpeculativeController(initial_steps)
ControllerInit(initial_steps) ==
    /\ max_steps = initial_steps
    /\ ctl_history = <<>>
    /\ last_decision = <<>>
    /\ ctl_call = CtlCall("init", 0, 0, <<>>, 0, 0, "none", "none")
    /\ n_reports = 0
    /\ pending = 0
    /\ decisions = <<>>
    /\ reported = <<>>

get_num_steps(batch_size, explore, pick) ==
    LET bs_bucket == BsBucket(batch_size)
        d == Decision(ctl_history, bs_bucket, explore, pick)
    IN  /\ ctl_history' = HistoryAfterGet(ctl_history, bs_bucket)
        /\ ctl_call' = CtlCall("get_num_steps", batch_size, 0, <<>>, 0, d[1], d[2], "none")
        /\ UNCHANGED <<max_steps, last_decision, n_reports, reported>>

\* update: the placeholder entry point; it returns without writing anything.
ctl_update(batch_size, accept_lens, latency) ==
    /\ ctl_call' = CtlCall("update", batch_size, 0, accept_lens, latency, 0, "none", "none")
    /\ UNCHANGED <<max_steps, ctl_history, last_decision, n_reports, reported>>

\* update_with_step; log is the outcome of random.random() < 0.05, and the
\* log line divides by latency.
update_with_step(batch_size, num_steps, accept_lens, latency, log) ==
    LET key == <<BsBucketOfReport(batch_size), num_steps>>
        total_accepted == SumSeq(accept_lens)
    IN  /\ ctl_history' = HistoryAfterReport(ctl_history, key, <<latency, total_accepted>>)
        /\ ctl_call' = CtlCall("update_with_step", batch_size, num_steps, accept_lens,
                               latency, 0, "none",
                               IF log /\ latency = 0 THEN "ZeroDivisionError" ELSE "none")
        /\ n_reports' = n_reports + 1
        /\ reported' = DictSet(reported, key,
                               Append(DictGet(reported, key, <<>>),
                                      <<latency, total_accepted>>))
        /\ UNCHANGED <<max_steps, last_decision>>

\* ---------------------------------------------------------------- inputs
\* Reported steps: the candidates and one value outside them.
ReportedSteps == 0..max_step
\* <<accepted_tokens, drafted_tokens>> pairs: a zero-drafted sample, and
\* rates 0, 1/2 (= target - 0.1), 7/10 (= target + 0.1) and 1.
Samples == {<<0, 0>>, <<0, 1>>, <<1, 2>>, <<7, 10>>, <<1, 1>>}
\* The samples used when two batch sizes are exercised together.
CoarseSamples == {<<0, 0>>, <<0, 1>>, <<1, 1>>}

\* The values of initial_steps the controller is constructed with.
InitialStepsChoices == {1, 2}
\* Batch sizes of one bucket.
BucketBatchSizes == {3, 4}
\* The batch size used when the entry points are interleaved freely.
ControllerBatchSizes == {4}
\* <<accept_lens, latency>> pairs: a zero and a negative latency, and 0 and
\* 2 tokens accepted in one time unit.
Outcomes == {<<<<1>>, 0>>, <<<<1>>, -1>>, <<<<>>, 1>>, <<<<1, 1>>, 1>>}
PositiveOutcomes == {x \in Outcomes : x[2] > 0}
\* Whether the log line is sampled matters only when it raises.
LogOutcomes(latency) == IF latency = 0 THEN BOOLEAN ELSE {FALSE}

Init == 
    /\ \E ms \in MaxStepChoices : TunerInit(ms, WindowSizeArg)
    /\ ControllerInit(1)

\* Any interleaving of get_step and update over two batch sizes.
Next ==
    /\ \/ \E b \in BatchSizes : get_step(b)
       \/ /\ n_updates < MaxUpdates
          /\ \E b \in BatchSizes, s \in ReportedSteps, x \in CoarseSamples :
                 update(b, s, x[1], x[2])
    /\ UNCHANGED ctl_vars

Spec == Init /\ [][Next]_vars

\* One batch size, every sample rate.
NextRates ==
    /\ \/ get_step(1)
       \/ /\ n_updates < MaxRateUpdates
          /\ \E s \in ReportedSteps, x \in Samples : update(1, s, x[1], x[2])
    /\ UNCHANGED ctl_vars

SpecRates == Init /\ [][NextRates]_vars

\* The controller alone: any interleaving of its three entry points on the
\* batch sizes of one bucket.
InitController ==
    /\ TunerInit(1, WindowSizeArg)
    /\ \E n \in InitialStepsChoices : ControllerInit(n)

NextController ==
    /\ \/ \E b \in ControllerBatchSizes, e \in BOOLEAN, p \in 1..max_steps :
              get_num_steps(b, e, p) /\ UNCHANGED <<pending, decisions>>
       \/ \E b \in ControllerBatchSizes, x \in PositiveOutcomes :
              ctl_update(b, x[1], x[2]) /\ UNCHANGED <<pending, decisions>>
       \/ /\ n_reports < MaxReports
          /\ \E b \in ControllerBatchSizes, s \in 1..max_steps, x \in Outcomes :
                 \E l \in LogOutcomes(x[2]) :
                    update_with_step(b, s, x[1], x[2], l) /\ UNCHANGED <<pending, decisions>>
    /\ UNCHANGED tuner_vars

SpecController == InitController /\ [][NextController]_vars

\* Either object, called for several keys: a run constructs both and drives
\* the one it calls first.
MaxKeyCalls == 3
\* Batch sizes of the buckets 0, 4 (twice) and 8.
KeyBatchSizes == {0, 3, 4, 5}

InitKeys ==
    \/ (\E ms \in MaxStepChoices : TunerInit(ms, WindowSizeArg)) /\ ControllerInit(1)
    \/ TunerInit(1, WindowSizeArg) /\ (\E n \in InitialStepsChoices : ControllerInit(n))

\* pending is 1 after a get_num_steps that follows a get_num_steps for the
\* same bucket with no other controller call in between, and 0 otherwise.
NextKeys ==
    \/ /\ ctl_call.op = "init"
       /\ \/ \E b \in BatchSizes : get_step(b)
          \/ /\ n_updates < MaxUpdates
             /\ \E b \in BatchSizes, s \in ReportedSteps, x \in CoarseSamples :
                    update(b, s, x[1], x[2])
       /\ UNCHANGED ctl_vars
    \/ /\ call.op = "init"
       /\ \/ /\ \E b \in KeyBatchSizes, e \in BOOLEAN, p \in 1..max_steps :
                    get_num_steps(b, e, p)
             /\ pending' = IF /\ ctl_call.op = "get_num_steps"
                              /\ BsBucket(ctl_call.batch_size)
                                    = BsBucket(ctl_call'.batch_size)
                           THEN 1 ELSE 0
          \/ /\ n_reports < MaxKeyCalls
             /\ \E b \in KeyBatchSizes, s \in 1..max_steps, x \in PositiveOutcomes :
                    update_with_step(b, s, x[1], x[2], FALSE)
             /\ pending' = 0
       /\ UNCHANGED decisions
       /\ UNCHANGED tuner_vars

SpecKeys == InitKeys /\ [][NextKeys]_vars

\* The scheduler loop on one bucket: a decision, then the report of the
\* decided step with a positive latency, and so on from a new controller.
LoopStepsChoices == {2, 3}

InitLoop ==
    /\ TunerInit(1, WindowSizeArg)
    /\ \E n \in LoopStepsChoices : ControllerInit(n)

Decide ==
    /\ pending = 0
    /\ Len(decisions) < MaxDecisions
    /\ \E b \in BucketBatchSizes, e \in BOOLEAN, p \in 1..max_steps :
           get_num_steps(b, e, p)
    /\ pending' = ctl_call'.ret
    /\ decisions' = Append(decisions, <<ctl_call'.ret, ctl_call'.branch>>)

Report ==
    /\ pending # 0
    /\ \E b \in BucketBatchSizes, x \in PositiveOutcomes :
           \E l \in LogOutcomes(x[2]) : update_with_step(b, pending, x[1], x[2], l)
    /\ pending' = 0
    /\ UNCHANGED decisions

NextLoop == (Decide \/ Report) /\ UNCHANGED tuner_vars

SpecLoop == InitLoop /\ [][NextLoop]_vars

\* ------------------------------------------- one tuner shared by two loops
\* Each loop runs get_step and update one statement at a time; the statements
\* of different loops interleave freely, except that an update for a batch
\* size begins only when no other update for that batch size is under way.
MaxSharedUpdates == 2

UpdatePcs == {"update_41", "update_46", "update_47", "update_49",
              "adjust_56", "adjust_58", "adjust_63", "adjust_79"}

\* Loop t is inside an update for batch size b.
Updating(t, b) == loops[t].pc \in UpdatePcs /\ loops[t].batch_size = b

At(t, pc) == loops[t].pc = pc
Goto(t, pc) == loops' = [loops EXCEPT ![t].pc = pc]
Return(t) == loops' = [loops EXCEPT ![t] = Idle]

SharedFrame == UNCHANGED <<max_step, window_size, asked, held, fresh, ctl_vars>>

\* get_step(batch_size) is called.
GetStepCall(t, b) ==
    /\ At(t, "idle")
    /\ loops' = [loops EXCEPT ![t] = [Idle EXCEPT !.pc = "get_28", !.batch_size = b]]
    /\ UNCHANGED <<bs_to_step, history, call, n_updates, applied>>
    /\ SharedFrame

\* if batch_size not in self.bs_to_step:
GetStepTest(t) ==
    /\ At(t, "get_28")
    /\ IF loops[t].batch_size \notin DOMAIN bs_to_step
       THEN Goto(t, "get_31") ELSE Goto(t, "get_33")
    /\ UNCHANGED <<bs_to_step, history, call, n_updates, applied>>
    /\ SharedFrame

\* self.bs_to_step[batch_size] = self.max_step
GetStepStore(t) ==
    /\ At(t, "get_31")
    /\ bs_to_step' = DictSet(bs_to_step, loops[t].batch_size, InitialStep)
    /\ Goto(t, "get_33")
    /\ UNCHANGED <<history, call, n_updates, applied>>
    /\ SharedFrame

\* return self.bs_to_step[batch_size]
GetStepReturn(t) ==
    /\ At(t, "get_33")
    /\ call' = TunerCall("get_step", loops[t].batch_size, 0, 0, 0,
                         bs_to_step[loops[t].batch_size], "none", 0, FALSE, FALSE)
    /\ Return(t)
    /\ UNCHANGED <<bs_to_step, history, n_updates, applied>>
    /\ SharedFrame

\* update(batch_size, step, accepted_tokens, drafted_tokens) is called.
UpdateCall(t, b, step, acc, dr) ==
    /\ At(t, "idle")
    /\ n_updates < MaxSharedUpdates
    /\ \A u \in Loops : ~Updating(u, b)
    /\ loops' = [loops EXCEPT ![t] =
                     [Idle EXCEPT !.pc = "update_41", !.batch_size = b, !.step = step,
                                  !.accepted_tokens = acc, !.drafted_tokens = dr]]
    /\ n_updates' = n_updates + 1
    /\ applied' = IF dr = 0 THEN applied
                  ELSE DictSet(applied, b,
                               Append(DictGet(applied, b, <<>>), <<step, Rat(acc, dr)>>))
    /\ UNCHANGED <<bs_to_step, history, call>>
    /\ SharedFrame

\* if drafted_tokens == 0: return;  rate = accepted_tokens / drafted_tokens
UpdateGuard(t) ==
    /\ At(t, "update_41")
    /\ IF ZeroDrafted(loops[t].drafted_tokens)
       THEN /\ Return(t)
            /\ call' = TunerCall("update", loops[t].batch_size, loops[t].step,
                                 loops[t].accepted_tokens, loops[t].drafted_tokens,
                                 0, "none", 0, FALSE, FALSE)
       ELSE IF loops[t].drafted_tokens = 0
       THEN /\ Return(t)
            /\ call' = TunerCall("update", loops[t].batch_size, loops[t].step,
                                 loops[t].accepted_tokens, loops[t].drafted_tokens,
                                 0, "ZeroDivisionError", 0, FALSE, FALSE)
       ELSE /\ loops' = [loops EXCEPT
                            ![t].pc = "update_46",
                            ![t].rate = Rat(loops[t].accepted_tokens,
                                            loops[t].drafted_tokens)]
            /\ UNCHANGED call
    /\ UNCHANGED <<bs_to_step, history, n_updates, applied>>
    /\ SharedFrame

\* if batch_size not in self.history:
UpdateTest(t) ==
    /\ At(t, "update_46")
    /\ IF loops[t].batch_size \notin DOMAIN history
       THEN Goto(t, "update_47") ELSE Goto(t, "update_49")
    /\ UNCHANGED <<bs_to_step, history, call, n_updates, applied>>
    /\ SharedFrame

\* self.history[batch_size] = deque(maxlen=self.window_size)
UpdateCreate(t) ==
    /\ At(t, "update_47")
    /\ history' = DictSet(history, loops[t].batch_size, <<>>)
    /\ Goto(t, "update_49")
    /\ UNCHANGED <<bs_to_step, call, n_updates, applied>>
    /\ SharedFrame

\* self.history[batch_size].append((step, rate))
UpdateAppend(t) ==
    /\ At(t, "update_49")
    /\ history' = DictSet(history, loops[t].batch_size,
                          UpdatedWindow(history, loops[t].batch_size,
                                        loops[t].step, loops[t].rate))
    /\ Goto(t, "adjust_56")
    /\ UNCHANGED <<bs_to_step, call, n_updates, applied>>
    /\ SharedFrame

\* current_step = self.bs_to_step.get(batch_size, self.max_step)
AdjustRead(t) ==
    /\ At(t, "adjust_56")
    /\ loops' = [loops EXCEPT ![t].pc = "adjust_58",
                              ![t].current_step = Suggestion(bs_to_step, loops[t].batch_size)]
    /\ UNCHANGED <<bs_to_step, history, call, n_updates, applied>>
    /\ SharedFrame

\* recent_records = [...];  if not recent_records: return
AdjustFilter(t) ==
    /\ At(t, "adjust_58")
    /\ LET recs == RecentRecords(history[loops[t].batch_size], loops[t].current_step)
       IN  IF recs = <<>>
           THEN /\ Return(t)
                /\ call' = TunerCall("update", loops[t].batch_size, loops[t].step,
                                     loops[t].accepted_tokens, loops[t].drafted_tokens,
                                     0, "none", loops[t].current_step, FALSE, FALSE)
           ELSE /\ loops' = [loops EXCEPT ![t].pc = "adjust_63",
                                         ![t].recent_records = recs]
                /\ UNCHANGED call
    /\ UNCHANGED <<bs_to_step, history, n_updates, applied>>
    /\ SharedFrame

\* avg_rate = ...;  new_step = ... (the threshold rule)
AdjustCompute(t) ==
    /\ At(t, "adjust_63")
    /\ loops' = [loops EXCEPT
                    ![t].pc = "adjust_79",
                    ![t].recent_records = <<>>,
                    ![t].new_step = NewStep(loops[t].current_step,
                                            AvgRate(loops[t].recent_records))]
    /\ UNCHANGED <<bs_to_step, history, call, n_updates, applied>>
    /\ SharedFrame

\* self.bs_to_step[batch_size] = new_step
AdjustStore(t) ==
    /\ At(t, "adjust_79")
    /\ bs_to_step' = DictSet(bs_to_step, loops[t].batch_size, loops[t].new_step)
    /\ call' = TunerCall("update", loops[t].batch_size, loops[t].step,
                         loops[t].accepted_tokens, loops[t].drafted_tokens,
                         0, "none", loops[t].current_step, FALSE, FALSE)
    /\ Return(t)
    /\ UNCHANGED <<history, n_updates, applied>>
    /\ SharedFrame

NextShared ==
    \E t \in Loops :
        \/ \E b \in BatchSizes : GetStepCall(t, b)
        \/ GetStepTest(t)
        \/ GetStepStore(t)
        \/ GetStepReturn(t)
        \/ \E b \in BatchSizes, s \in ReportedSteps, x \in CoarseSamples :
               UpdateCall(t, b, s, x[1], x[2])
        \/ UpdateGuard(t)
        \/ UpdateTest(t)
        \/ UpdateCreate(t)
        \/ UpdateAppend(t)
        \/ AdjustRead(t)
        \/ AdjustFilter(t)
        \/ AdjustCompute(t)
        \/ AdjustStore(t)

SpecShared == Init /\ [][NextShared]_vars

\* ------------------------------------------------------ tuner properties
\* The mean rate of the records of window win whose step is s lies above,
\* below or inside the closed band [target - 0.1, target + 0.1].
HasMatch(win, s) == RecentRecords(win, s) # <<>>
MeanAbove(win, s) ==
    RatLess(RatAdd(target_acceptance_rate, band), AvgRate(RecentRecords(win, s)))
MeanBelow(win, s) ==
    RatLess(AvgRate(RecentRecords(win, s)), RatSub(target_acceptance_rate, band))
MeanInBand(win, s) == ~MeanAbove(win, s) /\ ~MeanBelow(win, s)

\* The step is an update call that got past the zero-drafted guard.
UpdateApplied == call'.op = "update" /\ call'.drafted_tokens # 0 /\ call'.err = "none"

\* C1: every stored suggestion lies in 1..max_step, and get_step returns a
\* value in 1..max_step for every batch size, in every reachable state and
\* whatever steps and token counts were reported.
C1_StepInRange ==
    /\ \A b \in DOMAIN bs_to_step : bs_to_step[b] \in 1..max_step
    /\ \A b \in BatchSizes : GetStepTable(bs_to_step, b)[b] \in 1..max_step
    /\ call.op = "get_step" => call.ret \in 1..max_step

\* A get_step that returned 1 after the suggestion was driven down from 3,
\* with a report of the out-of-range step 0 in the window.
C1_Witness ==
    /\ call.op = "get_step" /\ call.ret = 1 /\ max_step = 3
    /\ \E i \in 1..Len(history[call.batch_size]) : history[call.batch_size][i][1] = 0

\* C4: an update call with drafted_tokens = 0 raises nothing and leaves
\* bs_to_step and history as they were (no entry is created).
C4_ZeroDraftedNoOp ==
    [][(call'.op = "update" /\ call'.drafted_tokens = 0)
         => /\ call'.err = "none"
            /\ bs_to_step' = bs_to_step
            /\ history' = history]_vars

\* A zero-drafted update for a batch size with no entry in either table,
\* made while another batch size has a window.
C4_Witness ==
    /\ call.op = "update" /\ call.drafted_tokens = 0
    /\ call.batch_size \notin DOMAIN history
    /\ call.batch_size \notin DOMAIN bs_to_step
    /\ history # <<>>

\* C6 as claimed: the first get_step(b) returns max_step, and a later
\* get_step(b) returns what the previous one returned unless an update for b
\* adjusted the suggestion in between.
C6_FirstGetIsMaxStep ==
    [][\A b \in BatchSizes :
         (call'.op = "get_step" /\ call'.batch_size = b)
           => /\ b \notin asked => call'.ret = max_step
              /\ (b \in asked /\ b \in DOMAIN held) => call'.ret = held[b]]_vars

\* C6 amended: the first get_step(b) returns max_step unless an update for b
\* adjusted the suggestion before it; a later get_step(b) returns what the
\* previous one returned unless an update for b adjusted the suggestion in
\* between.
C6_FirstGetUnlessAdjusted ==
    [][\A b \in BatchSizes :
         (call'.op = "get_step" /\ call'.batch_size = b /\ b \in DOMAIN held)
           => call'.ret = (IF b \in asked THEN held[b] ELSE max_step)]_vars

\* A first get_step(b) that returned max_step although updates for b came
\* before it (none of them adjusted the suggestion).
C6_Witness ==
    /\ call.op = "get_step" /\ call.first
    /\ call.batch_size \in DOMAIN history
    /\ call.batch_size \in DOMAIN held
    /\ call.ret = max_step /\ max_step > 1

C9_GetStepIdempotent ==
    [][\A b \in BatchSizes :
         (call'.op = "get_step" /\ call'.batch_size = b /\ b \in DOMAIN fresh)
           => call'.ret = fresh[b]]_vars

\* A repeated get_step for a batch size whose suggestion updates had lowered.
C9_Witness ==
    /\ call.op = "get_step" /\ call.repeat
    /\ call.ret < max_step /\ n_updates > 0

\* ------------------------------------------------- controller properties
\* The last n elements of a sequence (all of it when it is shorter).
LastN(q, n) == IF Len(q) <= n THEN q ELSE SubSeq(q, Len(q) - n + 1, Len(q))

\* The reports of a log that are not degenerate (latency > 0).
NonDegenerate(log) == LET Positive(r) == r[1] > 0 IN SelectSeq(log, Positive)

\* C2: get_num_steps returns a candidate, an integer in 1..max_steps, in
\* every reachable state, for every batch size and every outcome of the
\* random draws, on the warmup, explore, exploit and fallback branches.
C2_DecisionIsCandidate ==
    /\ \A b \in ControllerBatchSizes, e \in BOOLEAN, p \in 1..max_steps :
           Decision(ctl_history, BsBucket(b), e, p)[1] \in 1..max_steps
    /\ ctl_call.op = "get_num_steps" => ctl_call.ret \in 1..max_steps

\* A get_num_steps call that took the exploitation branch and returned the
\* second of two candidates.
C2_Witness ==
    /\ ctl_call.op = "get_num_steps" /\ ctl_call.branch = "exploit"
    /\ ctl_call.ret = 2 /\ max_steps = 2

\* C3: an update_with_step call with latency <= 0 raises nothing and leaves
\* every window as it was.
C3_NonPositiveLatencyNoOp ==
    [][(ctl_call'.op = "update_with_step" /\ ctl_call'.latency <= 0)
         => /\ ctl_call'.err = "none"
            /\ ctl_history' = ctl_history]_vars

\* C5: the window of a key holds the last min(n, capacity) of the n
\* non-degenerate records reported for it, in arrival order.
C5_WindowHoldsLastReports ==
    \A key \in DOMAIN reported :
        ctl_history[key] = LastN(NonDegenerate(reported[key]), HistoryMaxLen)

\* What does hold of the windows.  The controller window is the last
\* HistoryMaxLen reports of any latency; the tuner window is pushed to and
\* evicted from at the head, and never exceeds window_size.
ControllerWindowHoldsLastCalls ==
    \A key \in DOMAIN reported :
        ctl_history[key] = LastN(reported[key], HistoryMaxLen)

TunerWindowFifo ==
    [][UpdateApplied =>
         LET b == call'.batch_size
             old == DictGet(history, b, <<>>)
             rec == <<call'.step, Rat(call'.accepted_tokens, call'.drafted_tokens)>>
         IN  /\ Len(history'[b]) <= window_size
             /\ history'[b] = LastN(Append(old, rec), window_size)]_vars

\* C10: in the scheduler loop, the first warmup_samples * |candidates|
\* decisions are each candidate warmup_samples times, in ascending order,
\* all taken on the warmup branch.
C10_WarmupOrder ==
    \A i \in 1..Len(decisions) :
        i <= warmup_samples * max_steps
          => decisions[i] = <<((i - 1) \div warmup_samples) + 1, "warmup">>

\* Three candidates, warmup complete and one decision made after it.
C10_Witness ==
    /\ max_steps = 3
    /\ Len(decisions) > warmup_samples * max_steps
    /\ decisions[Len(decisions)][2] # "warmup"


\* Every candidate of the bucket has at least warmup_samples records.
Warmed(hist, bucket) ==
    \A s \in 1..max_steps : Len(Window(hist, <<bucket, s>>)) >= warmup_samples

LatencyOf(hist, bucket, s) == TotalLatency(Window(hist, <<bucket, s>>))
TokensOf(hist, bucket, s) == TotalTokens(Window(hist, <<bucket, s>>))

\* Candidate s has a greater throughput than candidate t (both latency sums
\* positive): tokens(s) / latency(s) > tokens(t) / latency(t).
FasterThan(hist, bucket, s, t) ==
    TokensOf(hist, bucket, s) * LatencyOf(hist, bucket, t)
        > TokensOf(hist, bucket, t) * LatencyOf(hist, bucket, s)

\* The lowest of the candidates in set c whose throughput no candidate of c
\* exceeds.
Fastest(hist, bucket, c) ==
    CHOOSE s \in c :
        \A t \in c : /\ ~FasterThan(hist, bucket, t, s)
                     /\ t < s => FasterThan(hist, bucket, s, t)

\* The candidates whose window has a positive latency sum.
Timed(hist, bucket) == {s \in 1..max_steps : LatencyOf(hist, bucket, s) > 0}

\* Some candidate has a positive throughput.
SomePositive(hist, bucket) ==
    \E s \in Timed(hist, bucket) : TokensOf(hist, bucket, s) > 0

\* C11 as claimed: past warmup and without exploration, get_num_steps
\* returns the candidate of greatest throughput, the lowest one on a tie
\* (stated for windows whose latency sums are positive, where every
\* throughput is defined).
C11_ReturnsFastest ==
    \A b \in ControllerBatchSizes, p \in 1..max_steps :
        LET k == BsBucket(b)
        IN  (Warmed(ctl_history, k) /\ Timed(ctl_history, k) = 1..max_steps)
              => Decision(ctl_history, k, FALSE, p)[1]
                    = Fastest(ctl_history, k, 1..max_steps)

\* C11 amended: past warmup and without exploration, when some candidate has
\* a positive throughput, get_num_steps returns, whatever random.choice would
\* draw, the candidate of greatest throughput among those whose latency sum
\* is positive, the lowest one on a tie.
C11_ReturnsFastestPositive ==
    \A b \in ControllerBatchSizes, p \in 1..max_steps :
        LET k == BsBucket(b)
        IN  (Warmed(ctl_history, k) /\ SomePositive(ctl_history, k))
              => Decision(ctl_history, k, FALSE, p)
                    = <<Fastest(ctl_history, k, Timed(ctl_history, k)), "exploit">>

\* An exploitation that returned candidate 1 of two candidates tied on a
\* positive throughput.
C11_Witness ==
    /\ ctl_call.op = "get_num_steps" /\ ctl_call.branch = "exploit"
    /\ max_steps = 2 /\ ctl_call.ret = 1
    /\ LET k == BsBucket(ctl_call.batch_size)
       IN  /\ Timed(ctl_history, k) = {1, 2}
           /\ TokensOf(ctl_history, k, 1) > 0
           /\ ~FasterThan(ctl_history, k, 1, 2)
           /\ ~FasterThan(ctl_history, k, 2, 1)

\* C12: a get_num_steps call that gets past the warmup loop (to the random
\* draw, the throughput comparison or the fallback) finds at least
\* warmup_samples records in the window of every candidate of its bucket.
C12_WarmupBeforeExploit ==
    [][(ctl_call'.op = "get_num_steps" /\ ctl_call'.branch # "warmup")
         => Warmed(ctl_history, BsBucket(ctl_call'.batch_size))]_vars

\* An exploration made with two candidates, one of them with exactly
\* warmup_samples records.
C12_Witness ==
    /\ ctl_call.op = "get_num_steps" /\ ctl_call.branch = "explore"
    /\ max_steps = 2
    /\ Len(ctl_history[<<BsBucket(ctl_call.batch_size), 2>>]) = warmup_samples

\* C15: once every candidate of a bucket has warmup_samples records this
\* stays so, through every later call and through eviction, and no
\* get_num_steps call for the bucket takes the warmup branch again.
C15_SteadyStays ==
    [][\A b \in ControllerBatchSizes :
         Warmed(ctl_history, BsBucket(b))
           => /\ Warmed(ctl_history', BsBucket(b))
              /\ (ctl_call'.op = "get_num_steps" /\ ctl_call'.batch_size = b)
                    => ctl_call'.branch # "warmup"]_vars

\* A get_num_steps past warmup after a window of its bucket has evicted a
\* record.
C15_Witness ==
    /\ ctl_call.op = "get_num_steps" /\ ctl_call.branch # "warmup"
    /\ \E s \in 1..max_steps :
          Len(DictGet(reported, <<BsBucket(ctl_call.batch_size), s>>, <<>>)) > HistoryMaxLen

\* C16: past warmup and without exploration, when no candidate has a
\* positive throughput, get_num_steps returns max_steps on the fallback
\* branch.
C16_FallbackIsMaxSteps ==
    \A b \in ControllerBatchSizes, p \in 1..max_steps :
        LET k == BsBucket(b)
        IN  (Warmed(ctl_history, k) /\ ~SomePositive(ctl_history, k))
              => Decision(ctl_history, k, FALSE, p) = <<max_steps, "fallback">>

\* A fallback to candidate 2 of two candidates whose windows, of positive
\* latency, hold no accepted token.
C16_Witness ==
    /\ ctl_call.op = "get_num_steps" /\ ctl_call.branch = "fallback"
    /\ max_steps = 2 /\ ctl_call.ret = 2
    /\ Timed(ctl_history, BsBucket(ctl_call.batch_size)) = {1, 2}

\* The records of a window whose step is s.
AtStep(win, s) == LET Same(r) == r[1] = s IN SelectSeq(win, Same)

\* What the window of b keeps of its records when one more is appended.
KeptOnAppend(b) ==
    LET old == DictGet(history, b, <<>>)
    IN  IF Len(old) < window_size THEN old ELSE Tail(old)

\* The step is an update whose reported step is not the suggestion in force.
StaleUpdate ==
    UpdateApplied /\ call'.step # Suggestion(bs_to_step, call'.batch_size)

\* C13 as claimed: an update whose reported step differs from the suggestion
\* in force for its batch size leaves that suggestion as it was.
C13_StaleLeavesSuggestion ==
    [][StaleUpdate => Suggestion(bs_to_step', call'.batch_size)
                        = Suggestion(bs_to_step, call'.batch_size)]_vars

\* C13 amended: the record of a stale update never enters the adjustment.
\* The suggestion is decided by the records at the suggested step that the
\* window keeps from before the call: unchanged with none of them or with
\* their mean inside the band, one step up or down (within 1..max_step) with
\* their mean above or below it.
C13_StaleRecordIgnored ==
    [][StaleUpdate =>
         LET b == call'.batch_size
             s == Suggestion(bs_to_step, b)
             n == Suggestion(bs_to_step', b)
             recs == AtStep(KeptOnAppend(b), s)
             above == RatLess(RatAdd(target_acceptance_rate, band), AvgRate(recs))
             below == RatLess(AvgRate(recs), RatSub(target_acceptance_rate, band))
         IN  IF recs = <<>> THEN n = s
             ELSE IF above THEN n = Min(max_step, s + 1)
             ELSE IF below THEN n = Max(1, s - 1)
             ELSE n = s]_vars

\* A stale update reporting the rate 0 that left a suggestion of 2 in place
\* while the window still held a record made at step 2.
C13_Witness ==
    /\ call.op = "update" /\ call.err = "none" /\ call.drafted_tokens # 0
    /\ call.accepted_tokens = 0
    /\ call.step # call.current_step /\ call.current_step = 2
    /\ bs_to_step = (call.batch_size :> 2)
    /\ AtStep(history[call.batch_size], 2) # <<>>

\* C14: when, after the append of update, the window of the batch size holds
\* no record at the suggestion in force (max_step for a batch size without an
\* entry), the table of suggestions is left as it was.
C14_NoMatchNoChange ==
    [][(UpdateApplied
          /\ AtStep(history'[call'.batch_size],
                    Suggestion(bs_to_step, call'.batch_size)) = <<>>)
         => bs_to_step' = bs_to_step]_vars

\* An update for a batch size without an entry whose window holds no record
\* at max_step: no entry was made.
C14_Witness ==
    /\ call.op = "update" /\ call.err = "none" /\ call.drafted_tokens # 0
    /\ call.batch_size \notin DOMAIN bs_to_step
    /\ Len(history[call.batch_size]) = 2
    /\ AtStep(history[call.batch_size], max_step) = <<>>

\* Dictionaries d and e agree on key k: both lack it or both map it to the
\* same value.
SameEntry(d, e, k) ==
    /\ (k \in DOMAIN d) <=> (k \in DOMAIN e)
    /\ k \in DOMAIN d => d[k] = e[k]

\* The step is an update_with_step call; its key, with the bucket taken as
\* the smallest multiple of 4 that is at least the batch size, and its record.
MaxBatchSize == 9
SmallestMultiple(b) ==
    CHOOSE m \in {4 * i : i \in 0..b} :
        m >= b /\ \A i \in 0..b : 4 * i >= b => m <= 4 * i
ReportStep == n_reports' # n_reports
ReportedKey == <<SmallestMultiple(ctl_call'.batch_size), ctl_call'.num_steps>>
ReportedRecord == <<ctl_call'.latency, SumSeq(ctl_call'.accept_lens)>>

\* C17: a tuner update for one batch size leaves the suggestion and the
\* window of every other batch size as they were; update_with_step changes
\* the window of its key only, by appending the reported record; and every
\* window is the tail of what was reported under its own key.
C17_PerKeyIsolation ==
    [][/\ n_updates' # n_updates =>
            \A b \in BatchSizes \ {call'.batch_size} :
                SameEntry(bs_to_step, bs_to_step', b) /\ SameEntry(history, history', b)
       /\ ReportStep =>
            /\ DOMAIN ctl_history' = DOMAIN ctl_history \cup {ReportedKey}
            /\ \A k \in DOMAIN ctl_history \ {ReportedKey} :
                   ctl_history'[k] = ctl_history[k]
            /\ ctl_history'[ReportedKey]
                 = LastN(Append(Window(ctl_history, ReportedKey), ReportedRecord),
                         HistoryMaxLen)
       /\ \A k \in DOMAIN ctl_history' :
              ctl_history'[k] = LastN(DictGet(reported', k, <<>>), HistoryMaxLen)]_vars

\* An update_with_step for one key made while another key of the same bucket
\* and a key of another bucket had a record.
C17_Witness ==
    /\ ctl_call.op = "update_with_step"
    /\ ctl_call.batch_size = 3 /\ ctl_call.num_steps = 1
    /\ <<4, 2>> \in DOMAIN ctl_history /\ Len(ctl_history[<<4, 2>>]) = 1
    /\ <<8, 1>> \in DOMAIN ctl_history /\ Len(ctl_history[<<8, 1>>]) = 1
    /\ Len(ctl_history[<<4, 1>>]) = 1

\* C18: get_num_steps and update_with_step both take the bucket of a batch
\* size b >= 0 to be the smallest multiple of 4 that is at least b (0 for 0,
\* 4 for 1..4, 8 for 5..8): the decision is made from the windows of that
\* bucket and the report goes to the window of that bucket, so that batch
\* sizes of one bucket read and write the same windows.
C18_BucketIsSmallestMultiple ==
    /\ \A b \in 0..MaxBatchSize :
           /\ BsBucket(b) = SmallestMultiple(b)
           /\ BsBucketOfReport(b) = SmallestMultiple(b)
    /\ BsBucket(0) = 0 /\ BsBucketOfReport(0) = 0
    /\ \A b \in 1..4 : /\ BsBucket(b) = 4 /\ BsBucket(b + 4) = 8
                       /\ BsBucketOfReport(b) = 4 /\ BsBucketOfReport(b + 4) = 8
    /\ [][/\ ReportStep =>
               /\ ReportedKey \in DOMAIN ctl_history'
               /\ ctl_history'[ReportedKey]
                    = LastN(Append(Window(ctl_history, ReportedKey), ReportedRecord),
                            HistoryMaxLen)
          /\ (ctl_call'.op = "get_num_steps" /\ ctl_call' # ctl_call) =>
               /\ \E e \in BOOLEAN, p \in 1..max_steps :
                      <<ctl_call'.ret, ctl_call'.branch>>
                        = Decision(ctl_history,
                                   SmallestMultiple(ctl_call'.batch_size), e, p)
               /\ \A k \in DOMAIN ctl_history' \ DOMAIN ctl_history :
                      k[1] = SmallestMultiple(ctl_call'.batch_size)]_vars

\* A get_num_steps for batch size 3 that moved on to candidate 2 because the
\* window of (4, 1) was full of warmup records, with the buckets 0 and 8 in
\* use as well.
C18_Witness ==
    /\ ctl_call.op = "get_num_steps" /\ ctl_call.batch_size = 3
    /\ ctl_call.branch = "warmup" /\ ctl_call.ret = 2
    /\ <<0, 1>> \in DOMAIN ctl_history /\ <<8, 1>> \in DOMAIN ctl_history
    /\ Len(ctl_history[<<4, 1>>]) = warmup_samples

\* C20: get_step changes no window and no suggestion already in the table;
\* get_num_steps changes no window it finds and adds only empty ones; and a
\* get_num_steps in warmup that directly follows one for the same bucket
\* returns the same candidate.
C20_ReadsKeepLearnedState ==
    [][/\ call'.op = "get_step" =>
            /\ history' = history
            /\ \A b \in DOMAIN bs_to_step :
                   b \in DOMAIN bs_to_step' /\ bs_to_step'[b] = bs_to_step[b]
       /\ ctl_call'.op = "get_num_steps" =>
            /\ \A k \in DOMAIN ctl_history :
                   k \in DOMAIN ctl_history' /\ ctl_history'[k] = ctl_history[k]
            /\ \A k \in DOMAIN ctl_history' \ DOMAIN ctl_history :
                   ctl_history'[k] = <<>>
       /\ (/\ ctl_call.op = "get_num_steps" /\ ctl_call'.op = "get_num_steps"
           /\ ctl_call.branch = "warmup"
           /\ SmallestMultiple(ctl_call.batch_size)
                = SmallestMultiple(ctl_call'.batch_size))
            => /\ ctl_call'.branch = "warmup"
               /\ ctl_call'.ret = ctl_call.ret]_vars

\* A get_num_steps repeated for its bucket that returned candidate 2 in
\* warmup again, with records in the window of candidate 1.
C20_Witness ==
    /\ ctl_call.op = "get_num_steps" /\ pending = 1
    /\ ctl_call.branch = "warmup" /\ ctl_call.ret = 2
    /\ Len(ctl_history[<<BsBucket(ctl_call.batch_size), 1>>]) = warmup_samples
    /\ Len(ctl_history[<<BsBucket(ctl_call.batch_size), 2>>]) = 1

\* The table and the window of batch size b after the updates of a log are
\* run alone, one after the other, from the table bs and the window win.
RECURSIVE Replay(_, _, _, _)
Replay(bs, win, log, b) ==
    IF log = <<>> THEN <<bs, win>>
    ELSE LET w == DequeAppend(win, Head(log), window_size)
         IN  Replay(AdjustStep(bs, w, b), w, Tail(log), b)

\* No loop is inside a call.
Quiescent == \A t \in Loops : loops[t] = Idle

\* C19: with the updates of each batch size serialized and everything else
\* interleaved statement by statement, whenever all calls have returned the
\* window of each batch size is the last min(n, window_size) records of its
\* updates with drafted_tokens # 0, and its suggestion is the one that these
\* updates, run alone in that order, produce.
C19_SharedMatchesSerial ==
    Quiescent =>
        \A b \in BatchSizes :
            LET log == DictGet(applied, b, <<>>)
                alone == Replay(<<>>, <<>>, log, b)
            IN  /\ DictGet(history, b, <<>>) = LastN(log, window_size)
                /\ Suggestion(bs_to_step, b) = Suggestion(alone[1], b)

====
